---------------------------- MODULE Spec2Model ----------------------------
(***************************************************************************)
(* clipgen: audio excitement detection, segment selection and the          *)
(* performance cache, modelled from src/backend.                           *)
(*                                                                         *)
(* Units.  A time is an integer number of audio samples (seconds times     *)
(* sample_rate), so librosa.frames_to_time(i) is i * hop_length and every  *)
(* time the segmenter computes is an exact integer.  A score is an integer *)
(* number of hundredths (0..100)  .  A per-frame array is held run-length  *)
(* encoded: a sequence of runs [n, laughter, shock, hype, speech], n >= 1  *)
(* consecutive frames carrying the same four category scores.  A mean or a *)
(* weighted total is kept as an exact fraction [n, d].                     *)
(***************************************************************************)
EXTENDS Integers, Sequences, FiniteSets, TLC

VARIABLES
    available_ram_gb,        \* SystemDetector.available_ram_gb
    processing_strategy,     \* SystemDetector.processing_strategy
    config_max_segments,     \* ProcessingConfig.max_segments_to_process
    rolling_window_minutes,  \* ProcessingConfig.rolling_window_minutes
    max_segments_to_process, \* EnhancedVideoProcessor.max_segments_to_process
    scores,                  \* excitement score arrays (run-length encoded)
    score_keys,              \* the keys of the excitement_scores dict
    peaks,                   \* PeakDetector.find_peaks result
    cand,                    \* _peaks_to_segments result / _merge_segments input
    merged,                  \* _merge_segments result
    remerged,                \* _merge_segments applied to merged
    detected,                \* _detect_segments result
    ranked,                  \* _rank_segments result
    pc,                      \* position of the segmentation run
    sel_segments,            \* _select_best_segments: segments argument
    max_clips,               \* _select_best_segments: max_clips argument
    selected_segments,       \* _select_best_segments result
    pcSel,                   \* position of the selection run
    cache,                   \* PerformanceCache.cache
    access_times,            \* PerformanceCache.access_times (insertion order)
    disk,                    \* cache/<key>.pkl files: key -> [value, mtime]
    now,                     \* datetime.now(), in hours
    thread,                  \* each cached_call caller's position
    host,                    \* the host's memory: what psutil would read now
    audio,                   \* _load_audio result: (audio_data, sr)
    ml_results,              \* analyze_audio_advanced result
    result,                  \* process_video_ml result
    call,                    \* the last cached call of extract_features
    app,                     \* the application that runs: main.py or the services
    pcApp,                   \* position of the application: loaded, serving
    jobs,                    \* the jobs dict: job_id -> job
    task,                    \* each job's background task's position
    clip_files               \* clips/<name>: path -> the job whose run wrote it

vars == <<available_ram_gb, processing_strategy, config_max_segments,
          rolling_window_minutes, max_segments_to_process, scores, score_keys, peaks, cand, merged,
          remerged, detected, ranked, pc, sel_segments, max_clips,
          selected_segments, pcSel, cache, access_times, disk, now, thread,
          host, audio, ml_results, result, call, app, pcApp, jobs, task,
          clip_files>>

profilerVars == <<available_ram_gb, processing_strategy, config_max_segments,
                  rolling_window_minutes, max_segments_to_process>>
segVars == <<scores, score_keys, peaks, cand, merged, remerged, detected,
             ranked, pc>>
selVars == <<sel_segments, max_clips, selected_segments, pcSel>>
cacheVars == <<cache, access_times, disk, now, thread>>
pipeVars == <<host, audio, ml_results, result>>
featVars == <<call>>
jobVars == <<app, pcApp, jobs, task, clip_files>>

\* Optional[int]: None is the empty tuple, a number k the tuple <<k>>
None == <<>>

Max2(a, b) == IF a >= b THEN a ELSE b
Min2(a, b) == IF a <= b THEN a ELSE b
SetMax(S) == CHOOSE x \in S : \A y \in S : y <= x
SetMin(S) == CHOOSE x \in S : \A y \in S : x <= y
Take(s, n) == SubSeq(s, 1, Min2(Len(s), n))
Range(s) == {s[i] : i \in 1..Len(s)}

(***************************************************************************)
(* Program constants.                                                      *)
(***************************************************************************)
sample_rate == 22050
hop_length == 512
min_clip_length_s == 20
max_clip_length_s == 180
context_buffer_s == 3
merge_threshold_s == 30
min_distance_seconds == 10
boundary_search_frames == 100
processor_max_segments == 50
quality_min_duration_s == 20
fallback_top == 10
ttl_hours == 24

Sec(s) == s * sample_rate
min_clip_length == Sec(min_clip_length_s)
max_clip_length == Sec(max_clip_length_s)
context_buffer == Sec(context_buffer_s)
merge_threshold == Sec(merge_threshold_s)

(***************************************************************************)
(* SystemDetector and ProcessingConfig.                                    *)
(***************************************************************************)
\* psutil's answer in whole GB, or the assumed 16 when the read raises
detect_available_ram(reading, readFails) == IF readFails THEN 16 ELSE reading

\* thresholds that a reading has to exceed
StrictThresholds(ram) ==
    IF ram > 32 THEN "high_memory"
    ELSE IF ram > 16 THEN "balanced"
    ELSE "conservative"

determine_processing_strategy(ram) ==
    IF ram >= 32 THEN "high_memory"
    ELSE IF ram >= 16 THEN "balanced"
    ELSE "conservative"

\* ProcessingConfig._get_window_size
get_window_size(strategy) ==
    CASE strategy = "high_memory" -> 20
      [] strategy = "balanced" -> 15
      [] strategy = "conservative" -> 10
      [] OTHER -> 15

\* ProcessingConfig._get_max_segments
get_max_segments(strategy) ==
    CASE strategy = "high_memory" -> 100
      [] strategy = "balanced" -> 50
      [] strategy = "conservative" -> 25
      [] OTHER -> 50

\* ProcessingConfig.get_excitement_types: category -> weight, in tenths
Categories == <<"laughter", "shock", "hype", "speech">>
excitement_types ==
    [c \in Range(Categories) |->
        CASE c = "laughter" -> 12
          [] c = "shock" -> 11
          [] c = "hype" -> 10
          [] c = "speech" -> 8]

\* the keys ExcitementDetector.analyze_excitement puts in its result
ScorerKeys == {"laughter", "shock", "hype", "speech"}


(***************************************************************************)
(* Run-length encoded per-frame arrays.  Frames are numbered from 0; a run *)
(* covers the frames lo..hi, the runs of an array follow one another       *)
(* without gaps and the first starts at frame 0.                           *)
(***************************************************************************)
\* len(array)
NumFrames(sc) == IF sc = <<>> THEN 0 ELSE sc[Len(sc)].hi + 1
\* the run holding frame i
RunOf(sc, i) == CHOOSE r \in 1..Len(sc) : sc[r].lo <= i /\ i <= sc[r].hi

\* scores[c][i]
ScoreAt(sc, c, i) == sc[RunOf(sc, i)][c]

\* number of frames a run has inside the slice [a:b]
Overlap(run, a, b) == Max2(0, Min2(run.hi + 1, b) - Max2(run.lo, a))

RECURSIVE SliceSumUpTo(_, _, _, _, _)
SliceSumUpTo(sc, c, a, b, r) ==
    IF r = 0 THEN 0
    ELSE SliceSumUpTo(sc, c, a, b, r - 1) + sc[r][c] * Overlap(sc[r], a, b)

\* sum(scores[c][a:b]) and len(scores[c][a:b]), the slice clipped as Python does
SliceSum(sc, c, a, b) == SliceSumUpTo(sc, c, a, b, Len(sc))
SliceLen(sc, a, b) == Max2(0, Min2(NumFrames(sc), b) - Max2(0, a))

(***************************************************************************)
(* MLAudioAnalyzer._create_composite_score.  The array is in thousandths   *)
(* and has the runs of the score arrays; the function raises KeyError when *)
(* the dict has no 'rms' entry to take the shape from.                     *)
(***************************************************************************)
RECURSIVE WeightedSum(_, _, _)
WeightedSum(run, keys, k) ==
    IF k = 0 THEN 0
    ELSE WeightedSum(run, keys, k - 1)
         + (IF Categories[k] \in keys
            THEN run[Categories[k]] * excitement_types[Categories[k]]
            ELSE 0)

CompositeRuns(sc, keys) ==
    [r \in 1..Len(sc) |->
        [lo |-> sc[r].lo, hi |-> sc[r].hi,
         v |-> WeightedSum(sc[r], keys, Len(Categories))]]

\* [raises |-> the KeyError of excitement_scores['rms'], value |-> the array]
_create_composite_score(sc, keys) ==
    IF "rms" \notin keys
    THEN [raises |-> TRUE, value |-> <<>>]
    ELSE [raises |-> FALSE, value |-> CompositeRuns(sc, keys)]

\* signal[i] of a composite array
At(sig, i) == sig[RunOf(sig, i)].v

RECURSIVE WindowSumUpTo(_, _, _, _)
WindowSumUpTo(sig, a, b, r) ==
    IF r = 0 THEN 0
    ELSE WindowSumUpTo(sig, a, b, r - 1) + sig[r].v * Overlap(sig[r], a, b)

\* sum(signal[a:b]); frames outside the array count as 0 (np.convolve pads)
WindowSum(sig, a, b) == WindowSumUpTo(sig, a, b, Len(sig))

(***************************************************************************)
(* BaselineCalculator.calculate_rolling_baseline, at one frame: the        *)
(* fraction [n, d] with baseline[i] = n / d.                               *)
(***************************************************************************)
window_frames(window_minutes) ==
    (window_minutes * 60 * sample_rate) \div hop_length

calculate_rolling_baseline(sig, window_minutes, i) ==
    LET w == window_frames(window_minutes)
        N == NumFrames(sig)
        half_window == w \div 2
        \* the frame whose rolling mean frame i carries: the edges repeat
        \* baseline[half_window] and baseline[-half_window]
        j == IF i < half_window THEN half_window
             ELSE IF i >= N - half_window THEN N - half_window
             ELSE i
        \* np.convolve(values, ones(w)/w, mode='same')[j] * w
        centre == WindowSum(sig, j + (w - 1) \div 2 - w + 1, j + (w - 1) \div 2 + 1)
    IN  IF w >= N
        THEN [n |-> WindowSum(sig, 0, N), d |-> N]
        ELSE [n |-> centre, d |-> w]

(***************************************************************************)
(* Exact comparison of fractions a/b and c/d (a, c >= 0; b, d > 0) by the  *)
(* Euclidean expansion, so that no product leaves the integer range.       *)
(***************************************************************************)
RECURSIVE FracLT(_, _, _, _)
FracLT(a, b, c, d) ==
    LET q1 == a \div b
        q2 == c \div d
        r1 == a % b
        r2 == c % d
    IN  IF q1 # q2 THEN q1 < q2
        ELSE IF r2 = 0 THEN FALSE
        ELSE IF r1 = 0 THEN TRUE
        ELSE FracLT(d, r2, b, r1)

FracLE(a, b, c, d) == ~FracLT(c, d, a, b)

RECURSIVE SortedSeq(_)
SortedSeq(S) ==
    IF S = {} THEN <<>> ELSE <<SetMin(S)>> \o SortedSeq(S \ {SetMin(S)})

(***************************************************************************)
(* PeakDetector.find_peaks: scipy.signal.find_peaks(signal, height,        *)
(* distance, prominence).                                                  *)
(***************************************************************************)
RECURSIVE PlateauLast(_, _)
\* the last run of the plateau (equal values) that starts at run r
PlateauLast(sig, r) ==
    IF r < Len(sig) /\ sig[r + 1].v = sig[r].v THEN PlateauLast(sig, r + 1) ELSE r

\* scipy _local_maxima_1d: the midpoint of every plateau that rises from its
\* left neighbour and falls to its right one
LocalMaxima(sig) ==
    {(sig[r].lo + sig[PlateauLast(sig, r)].hi) \div 2 :
        r \in {q \in 2..Len(sig) :
                 /\ sig[q - 1].v < sig[q].v
                 /\ PlateauLast(sig, q) < Len(sig)
                 /\ sig[PlateauLast(sig, q) + 1].v < sig[q].v}}

\* height: signal[p] >= baseline[p] * 1.2
AboveThreshold(sig, window_minutes, p) ==
    LET b == calculate_rolling_baseline(sig, window_minutes, p)
    IN  FracLE(12 * b.n, 10 * b.d, At(sig, p), 1)

min_distance_frames == (min_distance_seconds * sample_rate) \div hop_length

\* argsort of the heights: position j comes before k
PriorityBefore(sig, pk, j, k) ==
    \/ At(sig, pk[j]) < At(sig, pk[k])
    \/ At(sig, pk[j]) = At(sig, pk[k]) /\ j < k

RECURSIVE SelectByDistance(_, _, _, _)
\* scipy _select_by_peak_distance: from the highest peak down, a kept peak
\* removes every peak closer than the distance; todo holds the positions
\* not yet visited, keep the positions still kept
SelectByDistance(sig, pk, todo, keep) ==
    IF todo = {} THEN keep
    ELSE LET j == CHOOSE x \in todo :
                      \A y \in todo \ {x} : PriorityBefore(sig, pk, y, x)
             near == {k \in 1..Len(pk) :
                         /\ k # j
                         /\ pk[k] - pk[j] < min_distance_frames
                         /\ pk[j] - pk[k] < min_distance_frames}
         IN  IF j \in keep
             THEN SelectByDistance(sig, pk, todo \ {j}, keep \ near)
             ELSE SelectByDistance(sig, pk, todo \ {j}, keep)

\* the peaks left before the prominence condition
PeaksBeforeProminence(sig, window_minutes) ==
    LET high == SortedSeq({p \in LocalMaxima(sig) :
                              AboveThreshold(sig, window_minutes, p)})
        keep == SelectByDistance(sig, high, 1..Len(high), 1..Len(high))
    IN  {high[j] : j \in keep}

RECURSIVE LeftMin(_, _, _)
\* the lowest value from run j leftwards, up to the first value above v
LeftMin(sig, v, j) ==
    IF j = 0 \/ sig[j].v > v THEN v ELSE Min2(sig[j].v, LeftMin(sig, v, j - 1))

RECURSIVE RightMin(_, _, _)
RightMin(sig, v, j) ==
    IF j > Len(sig) \/ sig[j].v > v THEN v ELSE Min2(sig[j].v, RightMin(sig, v, j + 1))

\* scipy _peak_prominences (wlen unset)
Prominence(sig, p) ==
    LET r == RunOf(sig, p)
    IN  sig[r].v - Max2(LeftMin(sig, sig[r].v, r), RightMin(sig, sig[r].v, r))

\* np.std(signal) is at most half the range of the signal, so a peak whose
\* prominence is a quarter of the range or more meets
\* prominence >= np.std(signal) * 0.5
SurelyProminent(sig, p) ==
    LET values == {sig[r].v : r \in 1..Len(sig)}
    IN  4 * Prominence(sig, p) >= SetMax(values) - SetMin(values)

\* Every answer find_peaks can give: the prominence condition keeps the
\* surely prominent peaks and may keep or drop each of the others.
find_peaks(sig, window_minutes) ==
    LET before == PeaksBeforeProminence(sig, window_minutes)
        sure == {p \in before : SurelyProminent(sig, p)}
    IN  {SortedSeq(sure \cup U) : U \in SUBSET (before \ sure)}

(***************************************************************************)
(* MLAudioAnalyzer: from peaks to segments.  A segment is the tuple        *)
(* <<start_time, end_time, excitement_type>>; an excitement type is the    *)
(* sequence of the category names its label joins with '+', so             *)
(* <<"hype", "shock">> stands for "hype+shock".                            *)
(***************************************************************************)
\* librosa.frames_to_time(i, sr, hop_length), in samples
frames_to_time(i) == i * hop_length

\* the stop condition of both boundary walks, at the frames of run r
BoundaryFound(sc, composite, peak_idx, r) ==
    /\ FracLT(composite[r].v, 1, 3 * At(composite, peak_idx), 10)
    /\ FracLT(sc[r].speech, 1,
              SliceSum(sc, "speech", 0, NumFrames(sc)), 2 * NumFrames(sc))

\* The backward walk visits the frames peak_idx down to
\* max(0, peak_idx - 100) + 1 and stops at the first one that meets the
\* condition; the forward walk visits peak_idx up to
\* min(len, peak_idx + 100) - 1.  A run meets the condition at all of its
\* frames or at none, so the first frame met is the nearest frame of the
\* walk that lies in a run meeting it.
_find_boundaries(peak_idx, composite, sc) ==
    LET first_back == Max2(0, peak_idx - boundary_search_frames) + 1
        last_forth == Min2(NumFrames(composite),
                           peak_idx + boundary_search_frames) - 1
        back == {Min2(sc[r].hi, peak_idx) :
                    r \in {q \in 1..Len(sc) :
                             /\ sc[q].lo <= peak_idx
                             /\ sc[q].hi >= first_back
                             /\ BoundaryFound(sc, composite, peak_idx, q)}}
        forth == {Max2(sc[r].lo, peak_idx) :
                    r \in {q \in 1..Len(sc) :
                             /\ sc[q].hi >= peak_idx
                             /\ sc[q].lo <= last_forth
                             /\ BoundaryFound(sc, composite, peak_idx, q)}}
    IN  <<IF back = {} THEN peak_idx ELSE SetMax(back),
          IF forth = {} THEN peak_idx ELSE SetMin(forth)>>

_adjust_clip_length(start_time, end_time, peak_time, max_time) ==
    LET duration == end_time - start_time
        center_time == (start_time + end_time) \div 2
    IN  IF duration < min_clip_length
        THEN <<Max2(0, center_time - min_clip_length \div 2),
               Min2(max_time, center_time + min_clip_length \div 2)>>
        ELSE IF duration > max_clip_length
        THEN <<Max2(0, peak_time - max_clip_length \div 2),
               Min2(max_time, peak_time + max_clip_length \div 2)>>
        ELSE <<start_time, end_time>>

RECURSIVE FirstHighest(_, _, _, _, _)
\* max(keys, key=mean): the first category, in the dict's order, that no
\* earlier one equals or exceeds; best = 0 before any category is seen
FirstHighest(sc, keys, a, b, k) ==
    IF k = 0 THEN 0
    ELSE LET best == FirstHighest(sc, keys, a, b, k - 1)
         IN  IF Categories[k] \notin keys THEN best
             ELSE IF best = 0 THEN k
             ELSE IF SliceSum(sc, Categories[k], a, b)
                     > SliceSum(sc, Categories[best], a, b)
                  /\ SliceLen(sc, a, b) > 0
             THEN k
             ELSE best

\* np.mean of an empty slice is nan for every category, no nan exceeds
\* another, and max() keeps the first key
_get_dominant_type(sc, keys, start_idx, end_idx) ==
    LET k == FirstHighest(sc, keys, start_idx, end_idx, Len(Categories))
    IN  IF k = 0 THEN <<"general">> ELSE <<Categories[k]>>

PeakSegment(peak_idx, composite, sc, keys) ==
    LET last_time == frames_to_time(NumFrames(composite) - 1)
        peak_time == frames_to_time(peak_idx)
        b == _find_boundaries(peak_idx, composite, sc)
        start_time == Max2(0, frames_to_time(b[1]) - context_buffer)
        end_time == Min2(last_time, frames_to_time(b[2]) + context_buffer)
        adj == _adjust_clip_length(start_time, end_time, peak_time, last_time)
    IN  <<adj[1], adj[2], _get_dominant_type(sc, keys, b[1], b[2])>>

RECURSIVE PeakSegmentsUpTo(_, _, _, _, _)
PeakSegmentsUpTo(pk, composite, sc, keys, k) ==
    IF k = 0 THEN <<>>
    ELSE PeakSegmentsUpTo(pk, composite, sc, keys, k - 1)
         \o (IF pk[k] >= NumFrames(composite) THEN <<>>
             ELSE <<PeakSegment(pk[k], composite, sc, keys)>>)

_peaks_to_segments(pk, composite, sc, keys) ==
    PeakSegmentsUpTo(pk, composite, sc, keys, Len(pk))

\* sorted(segments, key=lambda x: x[0]): stable insertion by start time
RECURSIVE SortByStart(_)
SortByStart(segs) ==
    IF segs = <<>> THEN <<>>
    ELSE LET rest == SortByStart(SubSeq(segs, 1, Len(segs) - 1))
             x == segs[Len(segs)]
             before == SelectSeq(rest, LAMBDA y : y[1] <= x[1])
             after == SelectSeq(rest, LAMBDA y : y[1] > x[1])
         IN  before \o <<x>> \o after

\* a loop that appends every segment and merges none
KeepAll(sorted_segments, k) == SubSeq(sorted_segments, 1, k)

RECURSIVE MergeBelowThreshold(_, _)
\* a loop that merges only when the gap is under the threshold
MergeBelowThreshold(sorted_segments, k) ==
    IF k = 1 THEN <<sorted_segments[1]>>
    ELSE LET m == MergeBelowThreshold(sorted_segments, k - 1)
             last == m[Len(m)]
             current == sorted_segments[k]
             new_type == IF last[3] = current[3] THEN last[3]
                         ELSE last[3] \o current[3]
         IN  IF current[1] - last[2] < merge_threshold
             THEN [m EXCEPT ![Len(m)] = <<last[1], current[2], new_type>>]
             ELSE Append(m, current)

RECURSIVE MergeUpTo(_, _)
\* the list `merged` after the loop has taken the first k sorted segments
MergeUpTo(sorted_segments, k) ==
    IF k = 1 THEN <<sorted_segments[1]>>
    ELSE LET m == MergeUpTo(sorted_segments, k - 1)
             last == m[Len(m)]
             current == sorted_segments[k]
             gap == current[1] - last[2]
             new_type == IF last[3] = current[3] THEN last[3]
                         ELSE last[3] \o current[3]
         IN  IF gap <= merge_threshold
             THEN [m EXCEPT ![Len(m)] = <<last[1], current[2], new_type>>]
             ELSE Append(m, current)

RECURSIVE MergePairsFrom(_, _)
\* a merge that joins a segment with its successor only, and never adds a
\* third to the pair
MergePairsFrom(sorted_segments, i) ==
    IF i > Len(sorted_segments) THEN <<>>
    ELSE IF i < Len(sorted_segments)
            /\ sorted_segments[i + 1][1] - sorted_segments[i][2] <= merge_threshold
    THEN <<<<sorted_segments[i][1], sorted_segments[i + 1][2],
             IF sorted_segments[i][3] = sorted_segments[i + 1][3]
             THEN sorted_segments[i][3]
             ELSE sorted_segments[i][3] \o sorted_segments[i + 1][3]>>>>
         \o MergePairsFrom(sorted_segments, i + 2)
    ELSE <<sorted_segments[i]>> \o MergePairsFrom(sorted_segments, i + 1)

MergeAdjacentPairs(segments) == MergePairsFrom(SortByStart(segments), 1)

_merge_segments(segments) ==
    IF segments = <<>> THEN segments
    ELSE MergeUpTo(SortByStart(segments), Len(segments))


(***************************************************************************)
(* MLAudioAnalyzer._detect_segments: composite, baseline, peaks, segments, *)
(* merge; any exception is logged and the result is the empty list.  The   *)
(* result is <<peaks, segments, merged_segments>> for one answer pk of     *)
(* find_peaks.                                                             *)
(***************************************************************************)
_detect_segments(sc, keys, pk) ==
    LET composite == _create_composite_score(sc, keys)
        segments == _peaks_to_segments(pk, composite.value, sc, keys)
    IN  IF composite.raises
        THEN <<<<>>, <<>>, <<>>>>
        ELSE <<pk, segments, _merge_segments(segments)>>

\* the answers find_peaks can give inside _detect_segments
DetectPeaks(sc, keys, window_minutes) ==
    IF _create_composite_score(sc, keys).raises THEN {<<>>}
    ELSE find_peaks(_create_composite_score(sc, keys).value, window_minutes)

(***************************************************************************)
(* MLAudioAnalyzer._rank_segments and _calculate_social_score.             *)
(***************************************************************************)
\* weights of _calculate_social_score, in tenths
SocialWeight(c) ==
    CASE c = "laughter" -> 4
      [] c = "shock" -> 3
      [] c = "hype" -> 2
      [] c = "speech" -> 1

RECURSIVE SocialSum(_, _, _, _, _)
SocialSum(sc, keys, a, b, k) ==
    IF k = 0 THEN 0
    ELSE SocialSum(sc, keys, a, b, k - 1)
         + (IF Categories[k] \in keys
            THEN SliceSum(sc, Categories[k], a, b) * SocialWeight(Categories[k])
            ELSE 0)

RECURSIVE TotalSum(_, _, _, _, _)
TotalSum(sc, keys, a, b, k) ==
    IF k = 0 THEN 0
    ELSE TotalSum(sc, keys, a, b, k - 1)
         + (IF Categories[k] \in keys
            THEN SliceSum(sc, Categories[k], a, b) * excitement_types[Categories[k]]
            ELSE 0)

\* min(1.0, max(0.0, base_score)), base_score * 1.2 for a label with '+'
_calculate_social_score(sc, keys, a, b, exc_type) ==
    LET base == [n |-> SocialSum(sc, keys, a, b, Len(Categories)),
                 d |-> SliceLen(sc, a, b) * 1000]
        score == IF Len(exc_type) > 1
                 THEN [n |-> base.n * 12, d |-> base.d * 10]
                 ELSE base
    IN  IF FracLT(1, 1, score.n, score.d) THEN [n |-> 1, d |-> 1] ELSE score

\* the dict _rank_segments builds for one segment, before the rank is set
SegmentDict(seg, sc, keys) ==
    LET start_frame == seg[1] \div hop_length
        end_frame == seg[2] \div hop_length
    IN  [start_time |-> seg[1],
         end_time |-> seg[2],
         duration |-> seg[2] - seg[1],
         excitement_type |-> seg[3],
         total_excitement_score |->
            [n |-> TotalSum(sc, keys, start_frame, end_frame, Len(Categories)),
             d |-> SliceLen(sc, start_frame, end_frame) * 1000],
         social_media_potential |->
            _calculate_social_score(sc, keys, start_frame, end_frame, seg[3]),
         rank |-> 0]

\* x's score is at least y's
ScoreGE(x, y) ==
    FracLE(y.total_excitement_score.n, y.total_excitement_score.d,
           x.total_excitement_score.n, x.total_excitement_score.d)

RECURSIVE SortByScoreTiesReversed(_)
\* an ascending sort read backwards: descending, but equal scores swap
SortByScoreTiesReversed(ds) ==
    IF ds = <<>> THEN <<>>
    ELSE LET rest == SortByScoreTiesReversed(SubSeq(ds, 1, Len(ds) - 1))
             x == ds[Len(ds)]
             before == SelectSeq(rest, LAMBDA y : ~ScoreGE(x, y))
             after == SelectSeq(rest, LAMBDA y : ScoreGE(x, y))
         IN  before \o <<x>> \o after

RECURSIVE SortByScore(_)
\* list.sort(key=total_excitement_score, reverse=True): stable, descending
SortByScore(ds) ==
    IF ds = <<>> THEN <<>>
    ELSE LET rest == SortByScore(SubSeq(ds, 1, Len(ds) - 1))
             x == ds[Len(ds)]
             before == SelectSeq(rest, LAMBDA y : ScoreGE(y, x))
             after == SelectSeq(rest, LAMBDA y : ~ScoreGE(y, x))
         IN  before \o <<x>> \o after

_rank_segments(segments, sc, keys) ==
    LET ds == [i \in 1..Len(segments) |-> SegmentDict(segments[i], sc, keys)]
        sorted == SortByScore(ds)
    IN  [i \in 1..Len(sorted) |-> [sorted[i] EXCEPT !.rank = i]]


(***************************************************************************)
(* Inputs of the segmentation runs: score arrays of a quiet recording with *)
(* loud bursts at some of the slots.                                       *)
(***************************************************************************)
MaxBursts == 5
MaxSlotIndex == 7

\* centre of each burst slot, in seconds
SlotSeconds == <<2, 60, 109, 158, 207, 256, 261, 298>>
Slots == 1..Min2(MaxSlotIndex, Len(SlotSeconds))
\* signal durations, in seconds
SignalSeconds == {12, 300, 1560}
BurstKinds == {"loud", "laugh", "mixed"}
RamReadings == {8, 16, 32}

\* frames of a signal of that many seconds (librosa: 1 + samples // hop)
FramesOf(seconds) == 1 + Sec(seconds) \div hop_length

QuietRun(lo, hi) ==
    [lo |-> lo, hi |-> hi, laughter |-> 2, shock |-> 0, hype |-> 1, speech |-> 0]

\* a burst of energy, louder at slot 4
LoudRun(lo, hi, slot) ==
    [lo |-> lo, hi |-> hi, laughter |-> 10, shock |-> 20,
     hype |-> IF slot = 4 THEN 80 ELSE 60, speech |-> 30]

\* a burst of laughter
LaughRun(lo, hi, slot) ==
    [lo |-> lo, hi |-> hi, laughter |-> 70, shock |-> 10, hype |-> 10,
     speech |-> 40]

\* "loud": 5 second bursts of energy; "laugh": 1 second bursts of laughter;
\* "mixed": 1 second bursts, of energy at the even slots and of laughter at
\* the odd ones
IsLoud(kind, slot) == kind = "loud" \/ (kind = "mixed" /\ slot % 2 = 0)
\* half the width of a burst, in frames
HalfWidth(kind, slot) ==
    IF kind = "loud" THEN Sec(5) \div (2 * hop_length)
    ELSE Sec(1) \div (2 * hop_length)

BurstLo(kind, slot) ==
    Max2(0, Sec(SlotSeconds[slot]) \div hop_length - HalfWidth(kind, slot))
BurstHi(N, kind, slot) ==
    Min2(N - 1, Sec(SlotSeconds[slot]) \div hop_length + HalfWidth(kind, slot))

RECURSIVE ProfileFrom(_, _, _, _)
\* the runs from frame `from` on, bursts at the slots of `left`
ProfileFrom(N, kind, left, from) ==
    IF left = {}
    THEN IF from < N THEN <<QuietRun(from, N - 1)>> ELSE <<>>
    ELSE LET slot == SetMin(left)
             lo == Max2(from, BurstLo(kind, slot))
             hi == BurstHi(N, kind, slot)
             burst == IF IsLoud(kind, slot) THEN LoudRun(lo, hi, slot)
                      ELSE LaughRun(lo, hi, slot)
         IN  (IF lo > from THEN <<QuietRun(from, lo - 1)>> ELSE <<>>)
             \o <<burst>> \o ProfileFrom(N, kind, left \ {slot}, hi + 1)

Profile(seconds, kind, bursts) == ProfileFrom(FramesOf(seconds), kind, bursts, 0)

\* the burst sets a signal of that duration can carry
BurstSets(seconds) ==
    {B \in SUBSET Slots :
        /\ Cardinality(B) <= MaxBursts
        /\ \A slot \in B : SlotSeconds[slot] < seconds}

(***************************************************************************)
(* Initial states.                                                         *)
(***************************************************************************)
\* SystemDetector.__init__, ProcessingConfig.__init__ and
\* EnhancedVideoProcessor.__init__
ProfilerInit ==
    \E reading \in RamReadings, readFails \in BOOLEAN :
        /\ available_ram_gb = detect_available_ram(reading, readFails)
        /\ processing_strategy =
              determine_processing_strategy(detect_available_ram(reading, readFails))
        /\ config_max_segments =
              get_max_segments(determine_processing_strategy(
                                   detect_available_ram(reading, readFails)))
        /\ rolling_window_minutes =
              get_window_size(determine_processing_strategy(
                                  detect_available_ram(reading, readFails)))
        /\ max_segments_to_process = processor_max_segments

\* no SystemDetector or video processor has been constructed
ProfilerIdle ==
    /\ available_ram_gb = 0
    /\ processing_strategy = "unset"
    /\ config_max_segments = 0
    /\ rolling_window_minutes = 0
    /\ max_segments_to_process = 0

SegIdle ==
    /\ scores = <<>>
    /\ score_keys = {}
    /\ peaks = <<>>
    /\ cand = <<>>
    /\ merged = <<>>
    /\ remerged = <<>>
    /\ detected = <<>>
    /\ ranked = <<>>
    /\ pc = "idle"

SelIdle ==
    /\ sel_segments = <<>>
    /\ max_clips = None
    /\ selected_segments = <<>>
    /\ pcSel = "idle"

\* no video is being processed
PipeIdle ==
    /\ host = <<>>
    /\ audio = <<>>
    /\ ml_results = <<>>
    /\ result = <<>>

\* no cached call of extract_features has been made
FeatIdle == call = <<>>

\* no application is running
JobsIdle ==
    /\ app = ""
    /\ pcApp = ""
    /\ jobs = <<>>
    /\ task = <<>>
    /\ clip_files = <<>>

CacheIdle ==
    /\ cache = <<>>
    /\ access_times = <<>>
    /\ disk = <<>>
    /\ now = 0
    /\ thread = <<>>

\* the scorer has produced the excitement scores of one recording; the dict
\* given to _detect_segments is the scorer's, or one that also has 'rms'
InitSeg ==
    /\ ProfilerInit
    /\ \E seconds \in SignalSeconds, kind \in BurstKinds :
         \E B \in BurstSets(seconds) : scores = Profile(seconds, kind, B)
    /\ score_keys \in {ScorerKeys, ScorerKeys \cup {"rms"}}
    /\ peaks = <<>>
    /\ cand = <<>>
    /\ merged = <<>>
    /\ remerged = <<>>
    /\ detected = <<>>
    /\ ranked = <<>>
    /\ pc = "scored"
    /\ SelIdle
    /\ CacheIdle
    /\ PipeIdle
    /\ FeatIdle
    /\ JobsIdle

(***************************************************************************)
(* Segmentation: the two steps of analyze_audio_advanced after scoring.    *)
(***************************************************************************)
DetectSegments ==
    /\ pc = "scored"
    /\ \E pk \in DetectPeaks(scores, score_keys, rolling_window_minutes) :
          LET out == _detect_segments(scores, score_keys, pk)
          IN  /\ peaks' = out[1]
              /\ cand' = out[2]
              /\ merged' = out[3]
              /\ detected' = out[3]
    /\ pc' = "segmented"
    /\ UNCHANGED <<scores, score_keys, remerged, ranked>>
    /\ UNCHANGED <<profilerVars, selVars, cacheVars, pipeVars>>
    /\ UNCHANGED <<featVars, jobVars>>

RankSegments ==
    /\ pc = "segmented"
    /\ ranked' = _rank_segments(detected, scores, score_keys)
    /\ pc' = "ranked"
    /\ UNCHANGED <<scores, score_keys, peaks, cand, merged, remerged, detected>>
    /\ UNCHANGED <<profilerVars, selVars, cacheVars, pipeVars>>
    /\ UNCHANGED <<featVars, jobVars>>

NextSeg == DetectSegments \/ RankSegments

SpecSeg == InitSeg /\ [][NextSeg]_vars


(***************************************************************************)
(* The merge pass on its own: _merge_segments applied to a list of         *)
(* candidate segments, and again to its own result.                        *)
(***************************************************************************)
MaxMergeLen == 3
MaxSegmentSeconds == 50

GridSeconds == {0, 20, 50, 81, 101}
GridTypes == {<<"laughter">>, <<"hype">>}
GridSegments ==
    {<<Sec(a), Sec(b), t>> : a \in GridSeconds, b \in GridSeconds, t \in GridTypes}

RECURSIVE ListsUpTo(_, _)
\* the lists of at most n members of S
ListsUpTo(S, n) ==
    IF n = 0 THEN {<<>>}
    ELSE LET shorter == ListsUpTo(S, n - 1)
         IN  shorter \cup {Append(l, x) : l \in shorter, x \in S}

InitMerge ==
    /\ ProfilerInit
    /\ scores = <<>>
    /\ score_keys = {}
    /\ peaks = <<>>
    /\ cand \in ListsUpTo({g \in GridSegments :
                              /\ g[1] < g[2]
                              /\ g[2] - g[1] <= Sec(MaxSegmentSeconds)},
                          MaxMergeLen)
    /\ merged = <<>>
    /\ remerged = <<>>
    /\ detected = <<>>
    /\ ranked = <<>>
    /\ pc = "candidates"
    /\ SelIdle
    /\ CacheIdle
    /\ PipeIdle
    /\ FeatIdle
    /\ JobsIdle

MergeSegments ==
    /\ pc = "candidates"
    /\ merged' = _merge_segments(cand)
    /\ pc' = "merged"
    /\ UNCHANGED <<scores, score_keys, peaks, cand, remerged, detected, ranked>>
    /\ UNCHANGED <<profilerVars, selVars, cacheVars, pipeVars>>
    /\ UNCHANGED <<featVars, jobVars>>

MergeAgain ==
    /\ pc = "merged"
    /\ remerged' = _merge_segments(merged)
    /\ pc' = "remerged"
    /\ UNCHANGED <<scores, score_keys, peaks, cand, merged, detected, ranked>>
    /\ UNCHANGED <<profilerVars, selVars, cacheVars, pipeVars>>
    /\ UNCHANGED <<featVars, jobVars>>

NextMerge == MergeSegments \/ MergeAgain

SpecMerge == InitMerge /\ [][NextMerge]_vars


(***************************************************************************)
(* Properties of segment detection.                                        *)
(***************************************************************************)
\* the time of the last frame: the signal is at least this long
SignalDuration == frames_to_time(NumFrames(scores) - 1)

OneBurstAtSixty == Profile(300, "loud", {2})

\* C2: for the recording with one isolated burst at t = 60 s, scored by the
\* excitement scorer, segment detection returns exactly one segment, of
\* duration min_clip_length, whose interval contains t = 60 s.
C2_OneBurstOneSegment ==
    (/\ pc = "segmented"
     /\ scores = OneBurstAtSixty
     /\ score_keys = ScorerKeys) =>
        /\ Len(detected) = 1
        /\ detected[1][2] - detected[1][1] = min_clip_length
        /\ detected[1][1] <= Sec(60)
        /\ Sec(60) <= detected[1][2]

\* C3: the segments the merge pass returns are pairwise disjoint, and each
\* is followed, in start order, by a gap greater than merge_threshold.
C3_MergedDisjoint ==
    pc \in {"merged", "remerged"} =>
        /\ \A i \in 1..Len(merged), j \in 1..Len(merged) :
              i < j => merged[i][2] < merged[j][1]
        /\ \A i \in 1..(Len(merged) - 1) :
              merged[i + 1][1] - merged[i][2] > merge_threshold

\* C3 witness: a merge of three candidates, given out of start order, that
\* joined two of them and kept the third apart
C3_Witness ==
    /\ pc = "merged"
    /\ Len(cand) = 3
    /\ Len(merged) = 2
    /\ cand[1][1] > cand[2][1]

\* C4: merging the result of the merge pass again returns the identical
\* list: same intervals, same labels, same order.
C4_MergeIdempotent == pc = "remerged" => remerged = merged

\* C4 witness: the second merge has run on a result whose first pass joined
\* three candidates with different labels into one
C4_Witness ==
    /\ pc = "remerged"
    /\ Len(cand) = 3
    /\ Len(merged) = 1
    /\ Len(merged[1][3]) > 1

\* the place in `detected` of the segment a ranked dict was built from
SourceIndex(d) ==
    CHOOSE k \in 1..Len(detected) :
        detected[k] = <<d.start_time, d.end_time, d.excitement_type>>

SameScore(x, y) == ScoreGE(x, y) /\ ScoreGE(y, x)

\* C5: ranking returns exactly the input segments, each once, in order of
\* non-increasing total_excitement_score, ranked 1..N in that order, and
\* segments of equal score keep the order they came in.
C5_RankingStableDescending ==
    pc = "ranked" =>
        /\ Len(ranked) = Len(detected)
        /\ \A k \in 1..Len(detected) :
              Cardinality({i \in 1..Len(ranked) :
                  <<ranked[i].start_time, ranked[i].end_time,
                    ranked[i].excitement_type>> = detected[k]})
              = Cardinality({j \in 1..Len(detected) : detected[j] = detected[k]})
        /\ \A i \in 1..Len(ranked) : ranked[i].rank = i
        /\ \A i \in 1..Len(ranked), j \in 1..Len(ranked) :
              i < j =>
                 /\ ScoreGE(ranked[i], ranked[j])
                 /\ SameScore(ranked[i], ranked[j])
                       => SourceIndex(ranked[i]) < SourceIndex(ranked[j])

\* C5 witness: three segments ranked, the first in time not ranked first,
\* and two of them of equal score
C5_Witness ==
    /\ pc = "ranked"
    /\ Len(ranked) = 3
    /\ SourceIndex(ranked[1]) # 1
    /\ \E i \in 1..2 : SameScore(ranked[i], ranked[i + 1])


(***************************************************************************)
(* EnhancedVideoProcessor._select_best_segments.  A ranked segment is the  *)
(* dict of _rank_segments, of which the selector reads duration and        *)
(* social_media_potential; rank is kept to tell the segments apart.        *)
(***************************************************************************)
\* the quality bar of a fraction: social_media_potential > 0.3
quality_min_social == [n |-> 3, d |-> 10]

\* a filter that looks at the social score only
SocialOnly(seg) ==
    FracLT(quality_min_social.n, quality_min_social.d,
           seg.social_media_potential.n, seg.social_media_potential.d)

\* seg["social_media_potential"] > 0.3 and seg["duration"] >= 20
IsQualitySegment(seg) ==
    /\ FracLT(quality_min_social.n, quality_min_social.d,
              seg.social_media_potential.n, seg.social_media_potential.d)
    /\ seg.duration >= Sec(quality_min_duration_s)

\* the whole list as the fallback pool
AllSegments(segments) == segments

\* segments[:min(len(segments), 10)]
TopSegments(segments) == Take(segments, Min2(Len(segments), fallback_top))

\* quality_segments as it stands before the truncation
QualityPool(segments) ==
    LET quality_segments == SelectSeq(segments, IsQualitySegment)
    IN  IF quality_segments = <<>> THEN TopSegments(segments)
        ELSE quality_segments

_select_best_segments(segments, clips, limit) ==
    IF segments = <<>> THEN <<>>
    ELSE IF clips # None THEN Take(QualityPool(segments), clips[1])
    ELSE Take(QualityPool(segments), limit)

MaxMixed == 2
MaxRun == 52
MaxClips == 3

SegmentKinds == {"quality", "dull", "short"}

\* a ranked segment of a kind: on the quality bar, at a social score of
\* exactly 0.3, or one sample short of 20 s
RankedSegment(kind, i) ==
    [rank |-> i,
     duration |-> IF kind = "short" THEN Sec(quality_min_duration_s) - 1
                  ELSE Sec(quality_min_duration_s),
     social_media_potential |->
         IF kind = "quality" THEN [n |-> 31, d |-> 100]
         ELSE IF kind = "dull" THEN quality_min_social
         ELSE [n |-> 9, d |-> 10]]

\* ranked lists: a mixed head of up to MaxMixed segments, then a run of up
\* to MaxRun segments of one kind
RankedLists ==
    { [i \in 1..(Len(head) + n) |->
          RankedSegment(IF i <= Len(head) THEN head[i] ELSE kind, i)] :
      head \in ListsUpTo(SegmentKinds, MaxMixed),
      kind \in SegmentKinds, n \in 0..MaxRun }

ClipLimits == {None} \cup {<<k>> : k \in 0..MaxClips \cup {fallback_top + 1}}

InitSelect ==
    /\ ProfilerInit
    /\ SegIdle
    /\ CacheIdle
    /\ PipeIdle
    /\ FeatIdle
    /\ JobsIdle
    /\ sel_segments \in RankedLists
    /\ max_clips = None
    /\ selected_segments = <<>>
    /\ pcSel = "called"

\* best_segments = self._select_best_segments(ml_results["segments"], max_clips)
SelectBestSegments ==
    /\ pcSel = "called"
    /\ \E clips \in ClipLimits :
          /\ max_clips' = clips
          /\ selected_segments' =
                _select_best_segments(sel_segments, clips,
                                      max_segments_to_process)
    /\ pcSel' = "selected"
    /\ UNCHANGED <<profilerVars, segVars, cacheVars, pipeVars, sel_segments>>
    /\ UNCHANGED <<featVars, jobVars>>

NextSelect == SelectBestSegments

SpecSelect == InitSelect /\ [][NextSelect]_vars

(***************************************************************************)
(* Properties of the selector.                                             *)
(***************************************************************************)
\* the ranked segments that pass the quality bar, by position
QualityPositions ==
    {i \in 1..Len(sel_segments) :
        /\ FracLT(3, 10, sel_segments[i].social_media_potential.n,
                  sel_segments[i].social_media_potential.d)
        /\ sel_segments[i].duration >= Sec(20)}

\* C6: for max_clips = K >= 0 the selector returns at most K segments, all
\* from the ranked list and in rank order; and when at least K ranked
\* segments have social_media_potential > 0.3 and duration >= 20 s, every
\* returned segment has both.
C6_SelectorAtMostKQuality ==
    (pcSel = "selected" /\ max_clips # None) =>
        /\ Len(selected_segments) <= max_clips[1]
        /\ \A i \in 1..Len(selected_segments) :
              selected_segments[i] \in Range(sel_segments)
        /\ \A i \in 1..Len(selected_segments), j \in 1..Len(selected_segments) :
              i < j => selected_segments[i].rank < selected_segments[j].rank
        /\ Cardinality(QualityPositions) >= max_clips[1] =>
              \A i \in 1..Len(selected_segments) :
                 /\ FracLT(3, 10, selected_segments[i].social_media_potential.n,
                           selected_segments[i].social_media_potential.d)
                 /\ selected_segments[i].duration >= Sec(20)

\* C6 witness: K = 2 clips returned from a list that starts with a segment
\* below the bar and has more than K segments on it
C6_Witness ==
    /\ pcSel = "selected"
    /\ max_clips = <<2>>
    /\ Len(selected_segments) = 2
    /\ 1 \notin QualityPositions
    /\ Cardinality(QualityPositions) > 2
    /\ selected_segments[1].rank = 2

\* C7: when no ranked segment passes the quality bar, the selector returns
\* the first min(10, N) ranked segments, in rank order, cut to max_clips
\* when it is given; the result is not empty when the list is not empty and
\* max_clips >= 1.
C7_FallbackTopTen ==
    (pcSel = "selected" /\ QualityPositions = {}) =>
        /\ max_clips = None =>
              selected_segments =
                  SubSeq(sel_segments, 1, Min2(10, Len(sel_segments)))
        /\ max_clips # None =>
              selected_segments =
                  SubSeq(sel_segments, 1,
                         Min2(max_clips[1], Min2(10, Len(sel_segments))))
        /\ (Len(sel_segments) > 0 /\ (max_clips = None \/ max_clips[1] >= 1))
              => selected_segments # <<>>

\* C7 witness: more than ten segments, none on the bar, a max_clips above
\* ten, and ten segments returned
C7_Witness ==
    /\ pcSel = "selected"
    /\ QualityPositions = {}
    /\ Len(sel_segments) > 10
    /\ max_clips # None
    /\ max_clips[1] > 10
    /\ Len(selected_segments) = 10

\* C8: with max_clips not given, the selector returns its pool cut to the
\* ceiling of the profiler's strategy: 25 for conservative, 50 for balanced,
\* 100 for high_memory.
C8_CeilingByStrategy ==
    (pcSel = "selected" /\ max_clips = None) =>
        Len(selected_segments) =
            Min2(Len(QualityPool(sel_segments)),
                 IF processing_strategy = "conservative" THEN 25
                 ELSE IF processing_strategy = "balanced" THEN 50
                 ELSE 100)


(***************************************************************************)
(* PerformanceCache.  cache maps a key to its value, kept together with    *)
(* the time of the set that stored it (a history field the program does    *)
(* not keep); access_times is the dict of last access times as the list of *)
(* its <<key, time>> items in insertion order; disk maps the key of each   *)
(* cache/<key>.pkl to the pickled value and the file's modification time, *)
(* which is the time of the set that wrote it.  Times are in hours.        *)
(***************************************************************************)
max_size == 2
NumKeys == 3
NumThreads == 2
TickHours == 13
MaxClock == 30

CacheKeys == 1..NumKeys
Threads == 1..NumThreads

\* what the wrapped function returns for the arguments behind a key
Result(key) == <<"result", key>>

\* dict.pop(key, None)
Pop(d, key) == [k \in DOMAIN d \ {key} |-> d[k]]

\* d[key] = value
Put(d, key, value) ==
    [k \in DOMAIN d \cup {key} |-> IF k = key THEN value ELSE d[k]]

\* access_times.pop(key, None)
PopTime(times, key) == SelectSeq(times, LAMBDA item : item[1] # key)

\* access_times[key] = t: in place for a key the dict has, else at the end
PutTime(times, key, t) ==
    IF \E i \in 1..Len(times) : times[i][1] = key
    THEN [i \in 1..Len(times) |->
             IF times[i][1] = key THEN <<key, t>> ELSE times[i]]
    ELSE Append(times, <<key, t>>)

\* datetime.now() - timestamp > timedelta(hours=self.ttl_hours)
_is_expired(timestamp, clock) == clock - timestamp > ttl_hours

_cleanup_expired(c, times, files, clock) ==
    LET expired_keys ==
            {times[i][1] : i \in {j \in 1..Len(times) :
                                     _is_expired(times[j][2], clock)}}
    IN  [cache |-> [k \in DOMAIN c \ expired_keys |-> c[k]],
         access_times |->
             SelectSeq(times, LAMBDA item : item[1] \notin expired_keys),
         disk |-> [k \in DOMAIN files \ expired_keys |-> files[k]]]

\* min(self.access_times.keys(), key=lambda k: self.access_times[k]): the
\* first of the oldest, in the dict's order
LruKey(times) ==
    LET i == CHOOSE i \in 1..Len(times) :
                 /\ \A j \in 1..Len(times) : times[i][2] <= times[j][2]
                 /\ \A j \in 1..(i - 1) : times[j][2] > times[i][2]
    IN  times[i][1]

_evict_lru(c, times, files) ==
    IF Cardinality(DOMAIN c) >= max_size
    THEN [cache |-> Pop(c, LruKey(times)),
          access_times |-> PopTime(times, LruKey(times)),
          disk |-> Pop(files, LruKey(times))]
    ELSE [cache |-> c, access_times |-> times, disk |-> files]

\* get(key): the state it leaves and the value returned, None for a miss
get(c, times, files, clock, key) ==
    LET clean == _cleanup_expired(c, times, files, clock)
    IN  IF key \in DOMAIN clean.cache
        THEN [cache |-> clean.cache,
              access_times |-> PutTime(clean.access_times, key, clock),
              disk |-> clean.disk,
              result |-> clean.cache[key].value,
              stored |-> clean.cache[key].stored]
        ELSE IF key \in DOMAIN clean.disk
        THEN IF ~_is_expired(clean.disk[key].mtime, clock)
             THEN [cache |-> Put(clean.cache, key,
                                 [value |-> clean.disk[key].value,
                                  stored |-> clean.disk[key].mtime]),
                   access_times |-> PutTime(clean.access_times, key, clock),
                   disk |-> clean.disk,
                   result |-> clean.disk[key].value,
                   stored |-> clean.disk[key].mtime]
             ELSE [cache |-> clean.cache,
                   access_times |-> clean.access_times,
                   disk |-> Pop(clean.disk, key),
                   result |-> None,
                   stored |-> clock]
        ELSE [cache |-> clean.cache,
              access_times |-> clean.access_times,
              disk |-> clean.disk,
              result |-> None,
              stored |-> clock]

\* set(key, value, persist)
set(c, times, files, clock, key, value, persist) ==
    LET room == _evict_lru(c, times, files)
    IN  [cache |-> Put(room.cache, key, [value |-> value, stored |-> clock]),
         access_times |-> PutTime(room.access_times, key, clock),
         disk |-> IF persist
                  THEN Put(room.disk, key, [value |-> value, mtime |-> clock])
                  ELSE room.disk]

Idle == [pc |-> "idle", key |-> 0]

\* a new process: nothing in memory, and the .pkl files an earlier process
\* left in the cache directory
InitCache ==
    /\ ProfilerIdle
    /\ SegIdle
    /\ SelIdle
    /\ PipeIdle
    /\ FeatIdle
    /\ JobsIdle
    /\ cache = <<>>
    /\ access_times = <<>>
    /\ \E left \in SUBSET CacheKeys :
          disk = [k \in left |-> [value |-> Result(k), mtime |-> 0]]
    /\ now = 0
    /\ thread = [t \in Threads |-> Idle]

\* performance_cache.get(key)
Get(key) ==
    LET r == get(cache, access_times, disk, now, key)
    IN  /\ cache' = r.cache
        /\ access_times' = r.access_times
        /\ disk' = r.disk
        /\ UNCHANGED <<profilerVars, segVars, selVars, pipeVars, now, thread>>
    /\ UNCHANGED <<featVars, jobVars>>

\* performance_cache.set(key, value, persist)
Set(key, persist) ==
    LET r == set(cache, access_times, disk, now, key, Result(key), persist)
    IN  /\ cache' = r.cache
        /\ access_times' = r.access_times
        /\ disk' = r.disk
        /\ UNCHANGED <<profilerVars, segVars, selVars, pipeVars, now, thread>>
    /\ UNCHANGED <<featVars, jobVars>>

\* cached_call, up to `result = self.get(key)`: a hit returns at once
CachedCallGet(t, key) ==
    /\ thread[t].pc = "idle"
    /\ LET r == get(cache, access_times, disk, now, key)
       IN  /\ cache' = r.cache
           /\ access_times' = r.access_times
           /\ disk' = r.disk
           /\ thread' = [thread EXCEPT ![t] =
                            IF r.result # None THEN Idle
                            ELSE [pc |-> "missed", key |-> key]]
    /\ UNCHANGED <<profilerVars, segVars, selVars, pipeVars, now>>
    /\ UNCHANGED <<featVars, jobVars>>

\* cached_call: `result = func(*args, **kwargs)`, with the lock not held
CachedCallExecute(t) ==
    /\ thread[t].pc = "missed"
    /\ thread' = [thread EXCEPT ![t].pc = "executed"]
    /\ UNCHANGED <<profilerVars, segVars, selVars, pipeVars, cache, access_times, disk,
                   now>>
    /\ UNCHANGED <<featVars, jobVars>>

\* cached_call: `self.set(key, result, persist)` and the return
CachedCallSet(t, persist) ==
    /\ thread[t].pc = "executed"
    /\ LET r == set(cache, access_times, disk, now, thread[t].key,
                    Result(thread[t].key), persist)
       IN  /\ cache' = r.cache
           /\ access_times' = r.access_times
           /\ disk' = r.disk
    /\ thread' = [thread EXCEPT ![t] = Idle]
    /\ UNCHANGED <<profilerVars, segVars, selVars, pipeVars, now>>
    /\ UNCHANGED <<featVars, jobVars>>

\* time passes
Tick ==
    /\ now + TickHours <= MaxClock
    /\ now' = now + TickHours
    /\ UNCHANGED <<profilerVars, segVars, selVars, pipeVars, cache, access_times, disk,
                   thread>>
    /\ UNCHANGED <<featVars, jobVars>>

NextCache ==
    \/ \E key \in CacheKeys : Get(key)
    \/ \E key \in CacheKeys, persist \in BOOLEAN : Set(key, persist)
    \/ \E t \in Threads, key \in CacheKeys : CachedCallGet(t, key)
    \/ \E t \in Threads : CachedCallExecute(t)
    \/ \E t \in Threads, persist \in BOOLEAN : CachedCallSet(t, persist)
    \/ Tick

SpecCache == InitCache /\ [][NextCache]_vars

(***************************************************************************)
(* Properties of the cache.                                                *)
(***************************************************************************)
\* the calls of a key that have executed the wrapped function and have not
\* returned yet
RunningExecutions(key) ==
    {t \in Threads : thread[t].pc = "executed" /\ thread[t].key = key}

\* C9: among the cached_call invocations of one key that are running at the
\* same time, having found the key absent, at most one executes the wrapped
\* function.
C9_AtMostOneExecution ==
    \A key \in CacheKeys : Cardinality(RunningExecutions(key)) <= 1

\* C10: the number of entries the cache holds in memory never exceeds
\* max_size.
C10_SizeWithinMax == Cardinality(DOMAIN cache) <= max_size


\* C11: expiry is absolute: whatever get returns for a key was stored by a
\* set no more than ttl_hours ago, however often it was read since.
C11_ExpiryAbsolute ==
    \A key \in CacheKeys :
        LET r == get(cache, access_times, disk, now, key)
        IN  r.result # None => now - r.stored <= ttl_hours

\* a step is a call of get, on its own or as the first part of cached_call
GetStep ==
    \/ \E key \in CacheKeys : Get(key)
    \/ \E t \in Threads, key \in CacheKeys : CachedCallGet(t, key)

\* C12: a key that a step removes from memory (expired or evicted) has no
\* file on disk after the step, and after a step that ran the cleanup no
\* file older than ttl_hours is left on disk.
C12_RemovedFromDiskToo ==
    [][/\ \A key \in DOMAIN cache \ DOMAIN cache' : key \notin DOMAIN disk'
       /\ GetStep =>
             \A key \in DOMAIN disk' : ~_is_expired(disk'[key].mtime, now')
      ]_vars


(***************************************************************************)
(* The run of one video: EnhancedVideoProcessor.process_video_ml around    *)
(* MLAudioAnalyzer.analyze_audio_advanced.  pcSel is the processor's       *)
(* position, pc the analyzer's.                                            *)
(***************************************************************************)
validation_min_seconds == 10
validation_warn_seconds == 14400
legacy_default_clips == 5

\* a validation that also turns away a recording of exactly ten seconds
RejectTenSeconds(samples, sr) ==
    ~(samples = 0 \/ sr <= 0 \/ samples <= validation_min_seconds * sr)

\* validate_audio_input(audio_data, sample_rate), audio_data given by its
\* length; a duration above validation_warn_seconds is logged and accepted
validate_audio_input(samples, sr) ==
    IF samples = 0 THEN FALSE
    ELSE IF sr <= 0 THEN FALSE
    ELSE IF samples < validation_min_seconds * sr THEN FALSE
    ELSE TRUE

\* _load_audio: (audio_data, sr), or (None, 0) when librosa.load raises or
\* the validation fails
_load_audio(samples, loads) ==
    IF ~loads THEN None
    ELSE IF ~validate_audio_input(samples, sample_rate) THEN None
    ELSE <<[samples |-> samples, sr |-> sample_rate]>>

Failure(message) ==
    [success |-> FALSE, error |-> message, segments |-> <<>>,
     processing_strategy |-> "unset"]

MaxPipelineBursts == 1

HostReadings == {8, 15, 16, 31, 32}
HostStates == [gb : HostReadings, readable : BOOLEAN]
AudioSamples == {0, Sec(validation_min_seconds) - 1,
                 Sec(validation_min_seconds), Sec(300)}
PipelineKinds == {"loud", "laugh"}

InitPipeline ==
    /\ ProfilerIdle
    /\ SegIdle
    /\ CacheIdle
    /\ sel_segments = <<>>
    /\ max_clips = None
    /\ selected_segments = <<>>
    /\ pcSel = "unconstructed"
    /\ host \in HostStates
    /\ audio = None
    /\ ml_results = <<>>
    /\ result = <<>>
    /\ FeatIdle
    /\ JobsIdle

\* EnhancedVideoProcessor.__init__: MLAudioAnalyzer(), SystemDetector(),
\* ProcessingConfig(detector)
ConstructProcessor ==
    /\ pcSel = "unconstructed"
    /\ available_ram_gb' = detect_available_ram(host.gb, ~host.readable)
    /\ processing_strategy' =
          determine_processing_strategy(
              detect_available_ram(host.gb, ~host.readable))
    /\ config_max_segments' =
          get_max_segments(determine_processing_strategy(
                               detect_available_ram(host.gb, ~host.readable)))
    /\ rolling_window_minutes' =
          get_window_size(determine_processing_strategy(
                              detect_available_ram(host.gb, ~host.readable)))
    /\ max_segments_to_process' = processor_max_segments
    /\ pcSel' = "ready"
    /\ UNCHANGED <<segVars, cacheVars, pipeVars, sel_segments, max_clips,
                   selected_segments>>
    /\ UNCHANGED <<featVars, jobVars>>

\* process_video_ml up to the call of analyze_audio_advanced
ProcessVideoMl ==
    /\ pcSel = "ready"
    /\ \E exists \in BOOLEAN, suitable \in BOOLEAN :
          IF ~exists
          THEN /\ result' = [success |-> FALSE, error |-> "Video file not found",
                             clips |-> 0, fallback |-> FALSE]
               /\ pcSel' = "done"
               /\ pc' = pc
          ELSE IF ~suitable
          THEN /\ result' = [success |-> FALSE,
                             error |-> "Video not suitable for processing",
                             clips |-> 0, fallback |-> FALSE]
               /\ pcSel' = "done"
               /\ pc' = pc
          ELSE /\ result' = result
               /\ pcSel' = "analysing"
               /\ pc' = "called"
    /\ UNCHANGED <<profilerVars, cacheVars, host, audio, ml_results,
                   sel_segments, max_clips, selected_segments, scores,
                   score_keys, peaks, cand, merged, remerged, detected, ranked>>
    /\ UNCHANGED <<featVars, jobVars>>

\* Step 1: audio_data, sr = self._load_audio(audio_path)
LoadAudio ==
    /\ pc = "called"
    /\ \E samples \in AudioSamples, loads \in BOOLEAN :
          /\ audio' = _load_audio(samples, loads)
          /\ IF _load_audio(samples, loads) = None
             THEN /\ ml_results' = Failure("Failed to load audio")
                  /\ pc' = "returned"
             ELSE /\ ml_results' = ml_results
                  /\ pc' = "loaded"
    /\ UNCHANGED <<profilerVars, selVars, cacheVars, host, result, scores,
                   score_keys, peaks, cand, merged, remerged, detected, ranked>>
    /\ UNCHANGED <<featVars, jobVars>>

\* Step 2: features = self.spectral_analyzer.extract_features(audio_data)
ExtractFeatures ==
    /\ pc = "loaded"
    /\ \E extracted \in BOOLEAN :
          IF ~extracted
          THEN /\ ml_results' = Failure("Feature extraction failed")
               /\ pc' = "returned"
          ELSE /\ ml_results' = ml_results
               /\ pc' = "featured"
    /\ UNCHANGED <<profilerVars, selVars, cacheVars, host, audio, result,
                   scores, score_keys, peaks, cand, merged, remerged, detected,
                   ranked>>
    /\ UNCHANGED <<featVars, jobVars>>

\* Step 3: excitement_scores = self.excitement_detector.analyze_excitement(features)
\* The scorer gives the four categories; the wider set is that of a scorer
\* which also supplies the 'rms' entry _create_composite_score reads.
AnalyzeExcitement ==
    /\ pc = "featured"
    /\ \E scored \in BOOLEAN :
          IF ~scored
          THEN /\ ml_results' = Failure("Excitement detection failed")
               /\ pc' = "returned"
               /\ UNCHANGED <<scores, score_keys>>
          ELSE /\ ml_results' = ml_results
               /\ pc' = "scored"
               /\ \E kind \in PipelineKinds :
                     \E B \in {b \in BurstSets(audio[1].samples \div sample_rate) :
                                  Cardinality(b) <= MaxPipelineBursts} :
                        scores' = Profile(audio[1].samples \div sample_rate,
                                          kind, B)
               /\ score_keys' \in {ScorerKeys, ScorerKeys \cup {"rms"}}
    /\ UNCHANGED <<profilerVars, selVars, cacheVars, host, audio, result,
                   peaks, cand, merged, remerged, detected, ranked>>
    /\ UNCHANGED <<featVars, jobVars>>

\* a return that sends the analysis back to the scoring stage
ReturnThenRescore ==
    /\ pc = "ranked"
    /\ pc' = "featured"
    /\ UNCHANGED <<profilerVars, selVars, cacheVars, pipeVars, scores,
                   score_keys, peaks, cand, merged, remerged, detected, ranked>>
    /\ UNCHANGED <<featVars, jobVars>>

\* a return that reads the host's memory again for the strategy it reports
ReturnAnalysisReprofiled ==
    /\ pc = "ranked"
    /\ processing_strategy' =
          determine_processing_strategy(
              detect_available_ram(host.gb, ~host.readable))
    /\ ml_results' = [success |-> TRUE, error |-> "", segments |-> ranked,
                      processing_strategy |-> processing_strategy']
    /\ pc' = "returned"
    /\ UNCHANGED <<available_ram_gb, config_max_segments,
                   rolling_window_minutes, max_segments_to_process, selVars,
                   cacheVars, host, audio, result, scores, score_keys, peaks,
                   cand, merged, remerged, detected, ranked>>
    /\ UNCHANGED <<featVars, jobVars>>

\* analysis_results = {"success": True, ...}; return analysis_results
ReturnAnalysis ==
    /\ pc = "ranked"
    /\ ml_results' = [success |-> TRUE, error |-> "", segments |-> ranked,
                      processing_strategy |-> processing_strategy]
    /\ pc' = "returned"
    /\ UNCHANGED <<profilerVars, selVars, cacheVars, host, audio, result,
                   scores, score_keys, peaks, cand, merged, remerged, detected,
                   ranked>>
    /\ UNCHANGED <<featVars, jobVars>>

\* a processor that goes on to the selector whatever the analysis reports
ReceiveAnalysisLenient ==
    /\ pcSel = "analysing"
    /\ pc = "returned"
    /\ result' = result
    /\ pcSel' = "called"
    /\ sel_segments' = ml_results.segments
    /\ UNCHANGED <<profilerVars, segVars, cacheVars, host, audio, ml_results,
                   max_clips, selected_segments>>
    /\ UNCHANGED <<featVars, jobVars>>

\* process_video_ml: `if not ml_results["success"]`, else on to the selector
ReceiveAnalysis ==
    /\ pcSel = "analysing"
    /\ pc = "returned"
    /\ IF ~ml_results.success
       THEN /\ result' = [success |-> FALSE,
                          error |-> "ML analysis failed: " \o ml_results.error,
                          clips |-> 0, fallback |-> FALSE]
            /\ pcSel' = "done"
            /\ sel_segments' = sel_segments
       ELSE /\ result' = result
            /\ pcSel' = "called"
            /\ sel_segments' = ml_results.segments
    /\ UNCHANGED <<profilerVars, segVars, cacheVars, host, audio, ml_results,
                   max_clips, selected_segments>>
    /\ UNCHANGED <<featVars, jobVars>>

\* `max_clips or 5`, the limit handed to the legacy processor
LegacyMaxClips(clips) ==
    IF clips # None /\ clips[1] # 0 THEN clips[1] ELSE legacy_default_clips

\* a processor that reports the empty selection as a failure of the analysis
FailWithoutFallback ==
    /\ pcSel = "selected"
    /\ selected_segments = <<>>
    /\ result' = [success |-> FALSE,
                  error |-> "ML analysis failed: no segments",
                  clips |-> 0, fallback |-> FALSE]
    /\ pcSel' = "done"
    /\ UNCHANGED <<profilerVars, segVars, cacheVars, host, audio, ml_results,
                   sel_segments, max_clips, selected_segments>>
    /\ UNCHANGED <<featVars, jobVars>>

\* `if not best_segments: return self._fallback_to_legacy_processing(...)`
FallbackToLegacy ==
    /\ pcSel = "selected"
    /\ selected_segments = <<>>
    /\ \E legacy \in BOOLEAN, made \in 1..LegacyMaxClips(max_clips) :
          result' = IF legacy
                    THEN [success |-> TRUE, error |-> "", clips |-> made,
                          fallback |-> TRUE]
                    ELSE [success |-> FALSE,
                          error |-> "Both ML and legacy processing failed",
                          clips |-> 0, fallback |-> TRUE]
    /\ pcSel' = "done"
    /\ UNCHANGED <<profilerVars, segVars, cacheVars, host, audio, ml_results,
                   sel_segments, max_clips, selected_segments>>
    /\ UNCHANGED <<featVars, jobVars>>

\* clips = self._generate_variable_clips(video_path, best_segments)
GenerateClips ==
    /\ pcSel = "selected"
    /\ selected_segments # <<>>
    /\ \E made \in 0..Len(selected_segments) :
          result' = [success |-> TRUE, error |-> "", clips |-> made,
                     fallback |-> FALSE]
    /\ pcSel' = "done"
    /\ UNCHANGED <<profilerVars, segVars, cacheVars, host, audio, ml_results,
                   sel_segments, max_clips, selected_segments>>
    /\ UNCHANGED <<featVars, jobVars>>

\* the host's free memory changes while the video is being processed
HostMemoryChanges ==
    /\ pcSel \in {"analysing", "called", "selected"}
    /\ host' \in HostStates \ {host}
    /\ UNCHANGED <<profilerVars, segVars, selVars, cacheVars, audio,
                   ml_results, result>>
    /\ UNCHANGED <<featVars, jobVars>>

NextPipeline ==
    \/ ConstructProcessor
    \/ ProcessVideoMl
    \/ LoadAudio
    \/ ExtractFeatures
    \/ AnalyzeExcitement
    \/ DetectSegments
    \/ RankSegments
    \/ ReturnAnalysis
    \/ ReceiveAnalysis
    \/ SelectBestSegments
    \/ FallbackToLegacy
    \/ GenerateClips
    \/ HostMemoryChanges

SpecPipeline == InitPipeline /\ [][NextPipeline]_vars


(***************************************************************************)
(* Properties of the run of a video.                                       *)
(***************************************************************************)
\* segmentation has run on the scores and an error was raised inside it
SegmentationRaised ==
    /\ pc \in {"segmented", "ranked", "returned"}
    /\ score_keys # {}
    /\ _create_composite_score(scores, score_keys).raises

AnalysisFailed == pc = "returned" /\ ~ml_results.success

StageOrder ==
    {<<"idle", "called">>, <<"called", "loaded">>, <<"loaded", "featured">>,
     <<"featured", "scored">>, <<"scored", "segmented">>,
     <<"segmented", "ranked">>, <<"ranked", "returned">>,
     <<"called", "returned">>, <<"loaded", "returned">>,
     <<"featured", "returned">>}

\* C15: within one analysis the stages run in the order load, feature
\* extraction, scoring, segmentation, ranking, each after the one before it
\* has completed, and none a second time.
C15_StagesInOrder ==
    [][/\ pc' # pc => <<pc, pc'>> \in StageOrder
       /\ pc' = "loaded" => audio' # None
       /\ pc' = "scored" => scores' # <<>> /\ detected' = <<>>
       /\ pc' = "segmented" => ranked' = <<>>
      ]_vars

\* C15 witness: an analysis of the scorer's own score set that has gone
\* through every stage and returned
C15_Witness ==
    /\ pcSel = "analysing"
    /\ pc = "returned"
    /\ score_keys = ScorerKeys
    /\ ml_results.success

ValidationRates == {-1, 0, 1, sample_rate}
ValidationSeconds == {0, 9, 10, 11, validation_warn_seconds,
                      validation_warn_seconds + 1}

\* C16: validation rejects exactly the empty signal, the non-positive
\* sample rate and the duration under 10 s; exactly 10 s and more than four
\* hours are accepted; and a rejected input ends the analysis with a
\* failure, no stage having run.
C16_ValidationExact ==
    /\ \A sr \in ValidationRates, seconds \in ValidationSeconds,
          odd \in {-1, 0, 1} :
          seconds * sr + odd >= 0 =>
             LET samples == seconds * sr + odd
                 empty == samples = 0
                 bad_rate == sr <= 0
                 short == sr > 0 /\ samples < 10 * sr
             IN  /\ validate_audio_input(samples, sr)
                       <=> ~(empty \/ bad_rate \/ short)
                 /\ (sr > 0 /\ samples = 10 * sr) =>
                        validate_audio_input(samples, sr)
                 /\ (sr > 0 /\ samples > validation_warn_seconds * sr) =>
                        validate_audio_input(samples, sr)
    /\ (pc = "returned" /\ audio = None) =>
          /\ ml_results = Failure("Failed to load audio")
          /\ scores = <<>> /\ peaks = <<>> /\ detected = <<>> /\ ranked = <<>>

\* C16 witness: a run whose audio was turned away, ended with the failure
C16_Witness ==
    /\ pcSel = "done"
    /\ audio = None
    /\ pc = "returned"
    /\ ~result.success

\* C17: the strategy is high_memory from 32 GB, balanced from 16 GB and
\* conservative below; a failed memory read is taken as 16 GB and still
\* gives a strategy.
C17_StrategyThresholds ==
    pcSel = "ready" =>
        /\ host.readable => available_ram_gb = host.gb
        /\ ~host.readable => available_ram_gb = 16
        /\ processing_strategy =
              (IF available_ram_gb >= 32 THEN "high_memory"
               ELSE IF available_ram_gb >= 16 THEN "balanced"
               ELSE "conservative")

\* C17 witness: a processor constructed on a host with 32 GB whose memory
\* could not be read
C17_Witness ==
    /\ pcSel = "ready"
    /\ ~host.readable
    /\ host.gb = 32
    /\ processing_strategy = "balanced"

\* C18: once the analyzer is constructed, no step changes the strategy or
\* the parameters derived from it, whatever happens to the host's memory.
C18_ConfigFrozen ==
    [][pcSel # "unconstructed" => UNCHANGED profilerVars]_vars

\* C18 witness: a finished run on a host whose memory, by the end, would
\* give another strategy than the one the run reports
C18_Witness ==
    /\ pcSel = "done"
    /\ pc = "returned"
    /\ score_keys = ScorerKeys
    /\ ml_results.success
    /\ ml_results.processing_strategy = processing_strategy
    /\ determine_processing_strategy(
           detect_available_ram(host.gb, ~host.readable)) # processing_strategy

\* C19: for the score set of the excitement scorer the composite is computed
\* without error and is, at every frame, 1.2 laughter + 1.1 shock +
\* 1.0 hype + 0.8 speech (here in thousandths, of scores in hundredths).
C19_CompositeDefined ==
    (scores # <<>> /\ score_keys = ScorerKeys) =>
        LET composite == _create_composite_score(scores, score_keys)
        IN  /\ ~composite.raises
            /\ \A r \in 1..Len(scores) :
                  At(composite.value, scores[r].lo) =
                      12 * scores[r].laughter + 11 * scores[r].shock
                      + 10 * scores[r].hype + 8 * scores[r].speech

\* the boundaries the walk is said to give for a peak: the nearest frame
\* within 100 frames that meets the condition, else the edge of the window
StatedBoundaries(peak_idx, composite, sc) ==
    LET edge_back == Max2(0, peak_idx - 100)
        edge_forth == Min2(NumFrames(sc) - 1, peak_idx + 100)
        meets(i) ==
            /\ 10 * At(composite, i) < 3 * At(composite, peak_idx)
            /\ 2 * NumFrames(sc) * ScoreAt(sc, "speech", i)
                  < SliceSum(sc, "speech", 0, NumFrames(sc))
        back == {i \in edge_back..peak_idx : meets(i)}
        forth == {i \in peak_idx..edge_forth : meets(i)}
    IN  <<IF back = {} THEN edge_back ELSE SetMax(back),
          IF forth = {} THEN edge_forth ELSE SetMin(forth)>>

BufferedWindow(peak_idx, composite, sc) ==
    LET last_time == frames_to_time(NumFrames(composite) - 1)
        b == _find_boundaries(peak_idx, composite, sc)
    IN  <<Max2(0, frames_to_time(b[1]) - context_buffer),
          Min2(last_time, frames_to_time(b[2]) + context_buffer),
          frames_to_time(peak_idx), last_time>>

\* twice the distance between the middle of [a, b] and the time c, at most
\* one sample (times are whole samples, so a half is rounded)
CentredOn(a, b, c) == a + b - 2 * c \in -1..1

JoinedLabel(a, b) == IF a = b THEN a ELSE a \o b

\* the gap between a segment and the one after it is within the threshold
Close(x, y) == y[1] - x[2] <= merge_threshold

\* two segments as one
Joined(x, y) == <<x[1], y[2], JoinedLabel(x[3], y[3])>>

\* the candidates are in strict start-time order
InStartOrder(segs) ==
    \A i \in 1..(Len(segs) - 1) : segs[i][1] < segs[i + 1][1]

C30_ClipLimitRespected ==
    (pcSel = "done" /\ result.success /\ max_clips # None) =>
        result.clips <= max_clips[1]


(***************************************************************************)
(* SpectralAnalyzer.extract_features behind @cached(persist=True).  The    *)
(* key is the md5 of f"{func_name}_{str(args)}_{...}", args being          *)
(* (self, audio_data).  str() of a numpy array of more than 1000 items     *)
(* prints its first three and last three items around '...', and every     *)
(* audio the analyzer accepts has more than 1000 samples; so an audio      *)
(* array is modelled by its edges, the six samples that are printed, and   *)
(* its body, the samples that are not.  md5 is taken to be injective.      *)
(***************************************************************************)
NumEdges == 2
NumBodies == 2

AudioInputs == [edges : 1..NumEdges, body : 1..NumBodies]

\* str(audio_data)
ArrayStr(audio_data) == <<audio_data.edges, "...">>

\* _generate_key(func.__name__, args, kwargs), the analyzer being the same
\* object in every call
_generate_key(func_name, audio_data) == <<func_name, ArrayStr(audio_data)>>

\* the dict of features of an audio array
Features(audio_data) == <<"features", audio_data.edges, audio_data.body>>

\* the empty dict extract_features returns when an exception is caught
NoFeatures == <<"features">>

\* the body of extract_features
extract_features(audio_data, raises) ==
    IF raises THEN NoFeatures ELSE Features(audio_data)

\* cached_call(func, self, audio_data, persist=True) by a single caller: the
\* cache it leaves, the value returned and whether func was executed
cached_call(c, times, files, clock, audio_data, raises) ==
    LET key == _generate_key("extract_features", audio_data)
        hit == get(c, times, files, clock, key)
        value == extract_features(audio_data, raises)
        stored == set(hit.cache, hit.access_times, hit.disk, clock, key,
                      value, TRUE)
    IN  IF hit.result # None
        THEN [cache |-> hit.cache, access_times |-> hit.access_times,
              disk |-> hit.disk, returned |-> hit.result, executed |-> FALSE]
        ELSE [cache |-> stored.cache, access_times |-> stored.access_times,
              disk |-> stored.disk, returned |-> value, executed |-> TRUE]

\* a new process with an empty cache directory
InitFeatures ==
    /\ ProfilerIdle
    /\ SegIdle
    /\ SelIdle
    /\ PipeIdle
    /\ JobsIdle
    /\ cache = <<>>
    /\ access_times = <<>>
    /\ disk = <<>>
    /\ now = 0
    /\ thread = [t \in Threads |-> Idle]
    /\ call = <<>>

\* self.spectral_analyzer.extract_features(audio_data)
CachedExtractFeatures ==
    /\ \E audio_data \in AudioInputs, raises \in BOOLEAN :
          LET r == cached_call(cache, access_times, disk, now, audio_data,
                               raises)
          IN  /\ cache' = r.cache
              /\ access_times' = r.access_times
              /\ disk' = r.disk
              /\ call' = <<[audio_data |-> audio_data,
                            returned |-> r.returned,
                            executed |-> r.executed]>>
    /\ UNCHANGED <<profilerVars, segVars, selVars, pipeVars, jobVars, now,
                   thread>>

NextFeatures == CachedExtractFeatures \/ Tick

SpecFeatures == InitFeatures /\ [][NextFeatures]_vars

(***************************************************************************)
(* Properties of the cached feature extraction.                            *)
(***************************************************************************)
\* C27: a failed extraction is not remembered: a call that is answered from
\* the cache, without executing the extraction, is never given the empty
\* failure result.
C27_FailureNotCached ==
    (call # <<>> /\ ~call[1].executed) => call[1].returned # NoFeatures

\* C28: caching is transparent: the features a cached call returns are the
\* features of the audio it was called with, never those stored by a call
\* with another audio.
C28_CachingTransparent ==
    (call # <<>> /\ call[1].returned # NoFeatures) =>
        call[1].returned = Features(call[1].audio_data)


(***************************************************************************)
(* The job layer.  Two applications keep jobs: main.py, with the module    *)
(* level dict `jobs`, the legacy VideoProcessor and the delete and retry   *)
(* endpoints; and the services of api_services.py (JobManager and          *)
(* BackgroundTaskService) around the EnhancedVideoProcessor.  A job is the *)
(* dict of its status, created_at, clips and error, with the outcome of    *)
(* its last run of the processor (a history field the program does not     *)
(* keep).  A clip path is <<n, d>>: d = 0 for clips/clip<n>.mp4 of         *)
(* VideoProcessor.extract_clips, d > 0 for                                 *)
(* clips/clip_<n>_<type>_<duration>s_<score>social.mp4 of                  *)
(* _generate_variable_clips, d standing for the descriptive part.          *)
(* process_video_background has no await in it, so from its first          *)
(* statement to its last no other handler of the event loop runs.          *)
(***************************************************************************)
CLEANUP_HOURS == 24
cleanup_hours == 24
NumJobs == 2
MaxJobClips == 2
NumDescriptors == 1

JobIds == 1..NumJobs
Apps == {"main", "services"}
Terminal == {"completed", "failed"}
Statuses == {"queued", "processing"} \cup Terminal

\* the job dict of upload_video / JobManager.create_job
NewJob(clock) ==
    [status |-> "queued", created_at |-> clock, clips |-> {}, error |-> "",
     outcome |-> ""]

\* a job an earlier process left in jobs.json, in the status it had when
\* that process stopped
LeftJob(status) ==
    [status |-> status, created_at |-> 0,
     clips |-> IF status = "completed" THEN {<<1, 0>>} ELSE {},
     error |-> IF status = "failed" THEN "Failed to generate clips" ELSE "",
     outcome |-> CASE status = "completed" -> "success"
                   [] status = "failed" -> "failure"
                   [] OTHER -> ""]

\* the files of the clips directory without the given paths
RemoveFiles(files, paths) == [q \in DOMAIN files \ paths |-> files[q]]

\* the files after the run of job j has written the given paths
WriteFiles(files, paths, j) ==
    [q \in DOMAIN files \cup paths |-> IF q \in paths THEN j ELSE files[q]]

\* main.py cleanup_old_jobs: the jobs and the files it leaves
cleanup_old_jobs(js, files, clock) ==
    LET jobs_to_remove ==
            {j \in DOMAIN js : clock - js[j].created_at > CLEANUP_HOURS}
    IN  [jobs |-> [j \in DOMAIN js \ jobs_to_remove |-> js[j]],
         clip_files |->
             RemoveFiles(files, UNION {js[j].clips : j \in jobs_to_remove})]

\* JobManager.cleanup_old_jobs: created_at < now - cleanup_hours
JobManager_cleanup_old_jobs(js, files, clock) ==
    LET jobs_to_remove ==
            {j \in DOMAIN js : /\ js[j].created_at < clock - cleanup_hours
                               /\ js[j].status \in Terminal}
    IN  [jobs |-> [j \in DOMAIN js \ jobs_to_remove |-> js[j]],
         clip_files |-> files]

\* the names of the clips of one run: clip01.., or the descriptive names
ClipPaths(made, d) == {<<n, d>> : n \in 1..made}

\* what a run of processor.process_video gives: a success with its clips, a
\* failure dict with its message, or (were it not to catch) an exception
ProcessorOutcomes(a) ==
    {[kind |-> "success", clips |-> ClipPaths(made, d), error |-> ""] :
        made \in 1..MaxJobClips,
        d \in IF a = "main" THEN {0} ELSE 0..NumDescriptors}
    \cup {[kind |-> "failure", clips |-> {}, error |-> m] :
             m \in IF a = "main"
                   THEN {"No interesting moments found in video"}
                   ELSE {"ML analysis failed: Failed to load audio"}}
    \cup {[kind |-> "raised", clips |-> {}, error |-> "Processing error: "]}

\* no background task is between its first and its last statement
NoTaskRunning == \A j \in JobIds : task[j] # "running"

\* a process has started: load_jobs has read jobs.json
InitJobs ==
    /\ ProfilerIdle
    /\ SegIdle
    /\ SelIdle
    /\ PipeIdle
    /\ FeatIdle
    /\ cache = <<>>
    /\ access_times = <<>>
    /\ disk = <<>>
    /\ thread = <<>>
    /\ now \in {0, TickHours, 2 * TickHours}
    /\ app \in Apps
    /\ pcApp = "loaded"
    /\ \E left \in {{}, {1}} :
          /\ jobs \in [left -> {LeftJob(st) : st \in Statuses}]
          /\ task = [j \in JobIds |-> IF j \in left THEN "stale" ELSE "none"]
    /\ clip_files = [q \in UNION {jobs[j].clips : j \in DOMAIN jobs} |-> 1]

\* startup_event: cleanup_old_jobs() / job_manager.cleanup_old_jobs()
StartupCleanup ==
    /\ pcApp = "loaded"
    /\ LET r == IF app = "main"
                THEN cleanup_old_jobs(jobs, clip_files, now)
                ELSE JobManager_cleanup_old_jobs(jobs, clip_files, now)
       IN  /\ jobs' = r.jobs
           /\ clip_files' = r.clip_files
    /\ pcApp' = "serving"
    /\ UNCHANGED <<profilerVars, segVars, selVars, cacheVars, pipeVars,
                   featVars, app, task>>

\* upload_video: the job record and background_tasks.add_task(...)
Upload(j) ==
    /\ pcApp = "serving"
    /\ NoTaskRunning
    /\ task[j] = "none"
    /\ \A i \in JobIds : i < j => task[i] # "none"
    /\ jobs' = Put(jobs, j, NewJob(now))
    /\ task' = [task EXCEPT ![j] = "scheduled"]
    /\ UNCHANGED <<profilerVars, segVars, selVars, cacheVars, pipeVars,
                   featVars, app, pcApp, clip_files>>

\* process_video_background, its first statements: status = "processing".
\* In main.py jobs[job_id] of a deleted job raises KeyError, in the try and
\* again in the except clause; JobManager.update_job only logs a warning.
BackgroundStart(j) ==
    /\ pcApp = "serving"
    /\ NoTaskRunning
    /\ task[j] = "scheduled"
    /\ IF j \in DOMAIN jobs
       THEN /\ jobs' = [jobs EXCEPT ![j].status = "processing"]
            /\ task' = [task EXCEPT ![j] = "running"]
       ELSE /\ jobs' = jobs
            /\ task' = [task EXCEPT ![j] = IF app = "main" THEN "raised"
                                            ELSE "running"]
    /\ UNCHANGED <<profilerVars, segVars, selVars, cacheVars, pipeVars,
                   featVars, app, pcApp, clip_files>>

\* a task that lets the exception of the processor go: the job is left as
\* it is
BackgroundFinishUncaught(j) ==
    /\ task[j] = "running"
    /\ \E o \in ProcessorOutcomes(app) :
          /\ clip_files' = WriteFiles(clip_files, o.clips, j)
          /\ jobs' =
                IF j \notin DOMAIN jobs \/ o.kind = "raised" THEN jobs
                ELSE [jobs EXCEPT ![j] =
                         [@ EXCEPT !.status = IF o.kind = "success"
                                              THEN "completed" ELSE "failed",
                                   !.clips = o.clips,
                                   !.error = o.error,
                                   !.outcome = o.kind]]
    /\ task' = [task EXCEPT ![j] = "ended"]
    /\ UNCHANGED <<profilerVars, segVars, selVars, cacheVars, pipeVars,
                   featVars, app, pcApp>>

\* process_video_background from processor.process_video(...) to the end:
\* completed with the clips, or failed with the error of the result or with
\* "Processing error: ..." of the except clause
BackgroundFinish(j) ==
    /\ task[j] = "running"
    /\ \E o \in ProcessorOutcomes(app) :
          /\ clip_files' = WriteFiles(clip_files, o.clips, j)
          /\ jobs' =
                IF j \notin DOMAIN jobs THEN jobs
                ELSE [jobs EXCEPT ![j] =
                         [@ EXCEPT !.status = IF o.kind = "success"
                                              THEN "completed" ELSE "failed",
                                   !.clips = o.clips,
                                   !.error = o.error,
                                   !.outcome = o.kind]]
    /\ task' = [task EXCEPT ![j] = "ended"]
    /\ UNCHANGED <<profilerVars, segVars, selVars, cacheVars, pipeVars,
                   featVars, app, pcApp>>

\* main.py delete_job: the files of the job's clips, then the job
DeleteJob(j) ==
    /\ app = "main"
    /\ pcApp = "serving"
    /\ NoTaskRunning
    /\ j \in DOMAIN jobs
    /\ clip_files' = RemoveFiles(clip_files, jobs[j].clips)
    /\ jobs' = Pop(jobs, j)
    /\ UNCHANGED <<profilerVars, segVars, selVars, cacheVars, pipeVars,
                   featVars, app, pcApp, task>>

\* main.py retry_job: the job is reset and handed to a new background task
RetryJob(j) ==
    /\ app = "main"
    /\ pcApp = "serving"
    /\ NoTaskRunning
    /\ j \in DOMAIN jobs
    /\ jobs[j].status \in Terminal
    /\ jobs' = [jobs EXCEPT ![j] =
                   [@ EXCEPT !.status = "queued", !.clips = {},
                             !.error = "", !.outcome = ""]]
    /\ task' = [task EXCEPT ![j] = "scheduled"]
    /\ UNCHANGED <<profilerVars, segVars, selVars, cacheVars, pipeVars,
                   featVars, app, pcApp, clip_files>>

NextJobs ==
    \/ StartupCleanup
    \/ \E j \in JobIds : Upload(j)
    \/ \E j \in JobIds : BackgroundStart(j)
    \/ \E j \in JobIds : BackgroundFinish(j)
    \/ \E j \in JobIds : DeleteJob(j)
    \/ \E j \in JobIds : RetryJob(j)
    \/ Tick

SpecJobs == InitJobs /\ [][NextJobs]_vars

\* The event loop runs every task it was given, in the order they became
\* ready, and a task that has started runs to its end.
SpecJobsFair ==
    /\ SpecJobs
    /\ \A j \in JobIds : SF_vars(BackgroundStart(j))
    /\ \A j \in JobIds : WF_vars(BackgroundFinish(j))


(***************************************************************************)
(* Properties of the job layer.                                            *)
(***************************************************************************)
\* the status changes of a job that is handed to background processing; a
\* retry hands a finished job over again
StatusOrder ==
    {<<"queued", "processing">>, <<"processing", "completed">>,
     <<"processing", "failed">>, <<"completed", "queued">>,
     <<"failed", "queued">>}

\* C24: a job handed to background processing moves queued -> processing ->
\* completed or failed and always reaches one of the two; it is completed
\* exactly when the processor's result reports success, and failed, with a
\* non-empty error message, when the result reports failure or the
\* processor raises.  (A job its user deletes has left the system.)
C24_JobReachesTerminalState ==
    /\ [][\A j \in DOMAIN jobs \cap DOMAIN jobs' :
             /\ jobs'[j].status # jobs[j].status =>
                   <<jobs[j].status, jobs'[j].status>> \in StatusOrder
             /\ (task[j] = "running" /\ task'[j] = "ended") =>
                   /\ jobs'[j].status = "completed"
                         <=> jobs'[j].outcome = "success"
                   /\ jobs'[j].outcome \in {"failure", "raised"} =>
                         /\ jobs'[j].status = "failed"
                         /\ jobs'[j].error # ""
                   /\ jobs'[j].outcome # ""
         ]_vars
    /\ \A j \in JobIds :
          (task[j] = "scheduled") ~>
             (j \notin DOMAIN jobs \/ jobs[j].status \in Terminal)

\* C24 witness: a job whose processor raised has ended failed with the
\* message of the except clause, next to a job that ended completed
C24_Witness ==
    /\ \E j \in DOMAIN jobs :
          /\ task[j] = "ended"
          /\ jobs[j].status = "failed"
          /\ jobs[j].outcome = "raised"
          /\ jobs[j].error = "Processing error: "
    /\ \E j \in DOMAIN jobs :
          /\ task[j] = "ended"
          /\ jobs[j].status = "completed"
          /\ jobs[j].clips # {}

\* C25: cleanup removes only jobs older than the retention period whose
\* status is completed or failed; a queued or processing job is never
\* removed by it, whatever its age.
C25_CleanupOnlyFinishedJobs ==
    [][(pcApp = "loaded" /\ pcApp' = "serving") =>
          \A j \in DOMAIN jobs \ DOMAIN jobs' :
              /\ jobs[j].status \in Terminal
              /\ now - jobs[j].created_at > CLEANUP_HOURS
      ]_vars

\* the file at a path: who wrote it, or nothing
FileAt(files, q) == IF q \in DOMAIN files THEN <<files[q]>> ELSE <<>>

\* C29: clip files of different jobs never collide: a step that is not the
\* processing or the deletion of a job neither writes nor deletes a file
\* among the clip paths recorded for that job.
C29_ClipFilesNeverCollide ==
    [][\A j \in DOMAIN jobs \cap DOMAIN jobs' :
          (jobs'[j] = jobs[j] /\ task'[j] = task[j]) =>
              \A q \in jobs[j].clips :
                  FileAt(clip_files', q) = FileAt(clip_files, q)
      ]_vars

============================================================================
